---- MODULE Spec2Model ----
(***************************************************************************)
(* The abalone age predictor of abalone.py (printed in the notebook):      *)
(* model_fn, the persistent parameter state it reads and trains (three     *)
(* Dense kernel/bias pairs and the global step), and the Estimator calls   *)
(* that invoke it in TRAIN, EVAL and PREDICT mode.                         *)
(*                                                                         *)
(* float32 values are carried as fixed-point integers, Unit to 1.0; every  *)
(* product and quotient is rounded to the nearest unit.                    *)
(*                                                                         *)
(* Spec: calls of model_fn in any mode from a fresh parameter state.       *)
(* SpecTrain: train() from a restored parameter state.                     *)
(* SpecEvaluate: evaluate() runs streaming the metrics over their batches. *)
(* SpecNotebook: the cells of the notebook, upload to delete_endpoint.     *)
(***************************************************************************)
EXTENDS Integers, Sequences, FiniteSets, TLC

VARIABLES params, global_step, pc, pending, call, result, graph, applied,
          evaluation, notebook

vars == <<params, global_step, pc, pending, call, result, graph, applied,
          evaluation, notebook>>

----------------------------------------------------------------------------
(* Program constants *)

\* LEARNING_RATE = 0.001 = 1 / LEARNING_RATE_DEN
LEARNING_RATE_DEN == 1000

\* fixed-point unit: one learning-rate quantum
Unit == LEARNING_RATE_DEN

\* tf.placeholder(tf.float32, shape=[1, 7]): seven measurements per row
NumFeatures == 7

\* Dense(10, ...): width of both hidden layers
HiddenUnits == 10

\* Dense(1, activation='linear')
OutputUnits == 1

\* two training instances sharing the parameter state
train_instance_count_two == 1 + 1

\* TensorFlow(..., train_instance_count=1, ...)
train_instance_count == 1

\* TensorFlow(..., training_steps= 100, evaluation_steps= 100, ...)
training_steps == 100
evaluation_steps == 100

INPUT_TENSOR_NAME == "inputs"
SIGNATURE_NAME == "serving_default"

\* tf.estimator.ModeKeys
TRAIN == "train"
EVAL == "eval"
PREDICT == "infer"
ModeKeys == {TRAIN, EVAL, PREDICT}

----------------------------------------------------------------------------
(* Bounds of the model *)

\* training steps a behaviour may apply
MaxSteps == 2

\* batches one evaluate() run may consume
MaxEvalBatches == 3

----------------------------------------------------------------------------
(* Inputs *)

\* a mode string outside tf.estimator.ModeKeys
BadModes == {"predict"}

\* rows of the abalone data set, in units (0.455 -> 455), and the zero row
ZeroRow == [i \in 1..NumFeatures |-> 0]
Row1 == <<455, 365, 95, 514, 225, 101, 150>>
Row2 == <<350, 265, 90, 226, 100, 49, 70>>

\* feature batches of one and of two rows
FeatureBatches == {<<ZeroRow>>, <<Row1, Row2>>}

\* labels=None: no label tensor (predict() passes none)
None == << >>

\* ring counts; a batch of labels is None or a sequence of integers
LabelBatches == {None, <<15>>, <<15, 7>>}

Workers == 1..train_instance_count

----------------------------------------------------------------------------
(* float32 arithmetic in fixed point *)

\* x / d rounded to the nearest integer, d > 0
Round(x, d) == (2 * x + d) \div (2 * d)

\* a * b of two fixed-point values
Mul(a, b) == Round(a * b, Unit)

\* the labels used as they are, without the cast to the scale of the predictions
to_float_uncast(n) == n

\* tf.to_float / tf.cast(labels, tf.float32): an integer as a fixed-point value
to_float(n) == n * Unit

RECURSIVE SumFn(_, _)
\* f[1] + ... + f[n]
SumFn(f, n) == IF n = 0 THEN 0 ELSE f[n] + SumFn(f, n - 1)

RECURSIVE ISqrtIn(_, _, _)
\* the largest r in lo..hi with r * r <= x
ISqrtIn(x, lo, hi) ==
  IF lo >= hi THEN lo
  ELSE LET mid == (lo + hi + 1) \div 2
       IN  IF mid * mid <= x THEN ISqrtIn(x, mid, hi) ELSE ISqrtIn(x, lo, mid - 1)

\* tf.sqrt of a fixed-point value v >= 0: sqrt(v / Unit) * Unit
sqrt(v) == ISqrtIn(v * Unit, 0, 46340)

\* the values of a vector as a sequence, each entry computed once
Tensor(v) == v \o << >>

relu(z) == IF z > 0 THEN z ELSE 0

linear(z) == z

\* the output layer built with activation='sigmoid', linearised around 0
Activation_sigmoidOutput(name, z) ==
  IF name = "relu" THEN relu(z) ELSE Unit \div 2 + z \div 4

\* the activation= argument of a Dense layer applied to z
Activation(name, z) == IF name = "relu" THEN relu(z) ELSE linear(z)

----------------------------------------------------------------------------
(* The network of model_fn *)

\* tf.keras.layers.Dense(units, activation)(x) for a batch x of rows:
\* activation(x . kernel + bias), row by row
Dense(x, kernel, bias, nin, nout, activation) ==
  Tensor([r \in 1..Len(x) |->
     Tensor([j \in 1..nout |->
        Activation(activation,
          bias[j] + Round(SumFn([i \in 1..nin |-> x[r][i] * kernel[i][j]], nin), Unit))])])

first_hidden_layer(P, features) ==
  Dense(features[INPUT_TENSOR_NAME], P.W1, P.b1, NumFeatures, HiddenUnits, "relu")

second_hidden_layer(P, h1) == Dense(h1, P.W2, P.b2, HiddenUnits, HiddenUnits, "relu")

output_layer(P, h2) == Dense(h2, P.W3, P.b3, HiddenUnits, OutputUnits, "linear")

RECURSIVE Flatten(_)
\* the entries of a batch of rows, row after row
Flatten(m) ==
  IF Len(m) = 0 THEN << >>
  ELSE [k \in 1..Len(m[1]) |-> m[1][k]] \o Flatten(Tail(m))

\* only the first row of the output kept
reshape_firstRow(t) == Flatten(<<[k \in 1..OutputUnits |-> t[1][k]]>>)

\* tf.reshape(t, [-1])
reshape(t) == Flatten([r \in 1..Len(t) |-> [k \in 1..OutputUnits |-> t[r][k]]])

----------------------------------------------------------------------------
(* Loss, metric and training op *)

Max(a, b) == IF a >= b THEN a ELSE b

\* element k of v broadcast against a longer vector: a single entry stretches
Bcast(v, k) == IF Len(v) = 1 THEN v[1] ELSE v[k]

\* shapes [n] and [m] broadcast when equal or when one of them is 1
Broadcastable(n, m) == n = m \/ n = 1 \/ m = 1

\* labels - predictions errors, elementwise with broadcasting, labels cast to float
Errors(labels, predictions) ==
  Tensor([k \in 1..Max(Len(labels), Len(predictions)) |->
     Bcast(predictions, k) - to_float(Bcast(labels, k))])

\* predictions.get_shape().assert_is_compatible_with(labels.get_shape()):
\* batch sizes known when the graph is built must be equal; unknown ones are
\* checked only when the op runs, and there they broadcast
ShapesCompatible(n, m, static) == IF static THEN n = m ELSE Broadcastable(n, m)

\* tf.losses.mean_squared_error(labels, predictions): raises on labels=None and
\* on incompatible shapes, else the mean of the squared differences
mean_squared_error(labels, predictions, static) ==
  IF labels = None THEN [raised |-> TRUE, value |-> 0]
  ELSE IF ~ShapesCompatible(Len(labels), Len(predictions), static)
  THEN [raised |-> TRUE, value |-> 0]
  ELSE LET d == Errors(labels, predictions)
           K == Len(d)
       IN  [raised |-> FALSE,
            value |-> Round(SumFn([k \in 1..K |-> Mul(d[k], d[k])], K), K)]

\* the sum of the squared errors of a batch: what a batch adds to the total of
\* the streaming metric
SquaredErrorSum(labels, predictions) ==
  LET d == Errors(labels, predictions)
  IN  SumFn([k \in 1..Len(d) |-> Mul(d[k], d[k])], Len(d))

\* the metric built as the mean squared error, the root left out
root_mean_squared_error_noRoot(labels, predictions) ==
  LET d == Errors(labels, predictions)
  IN  Round(SquaredErrorSum(labels, predictions), Len(d))

\* tf.metrics.root_mean_squared_error(tf.cast(labels, tf.float32), predictions)
\* after one batch: sqrt(total squared error / count)
root_mean_squared_error(labels, predictions) ==
  LET d == Errors(labels, predictions)
      K == Len(d)
  IN  sqrt(Round(SumFn([k \in 1..K |-> Mul(d[k], d[k])], K), K))

\* d loss / d parameters by backpropagation through the three layers
Gradients(P, features, labels) ==
  LET x  == features[INPUT_TENSOR_NAME]
      n  == Len(x)
      h1 == first_hidden_layer(P, features)
      h2 == second_hidden_layer(P, h1)
      p  == reshape(output_layer(P, h2))
      d  == Errors(labels, p)
      K  == Len(d)
      dp == Tensor([r \in 1..n |->
               SumFn([k \in 1..K |->
                        IF n = 1 \/ k = r THEN Round(2 * d[k], K) ELSE 0], K)])
      dz2 == Tensor([r \in 1..n |-> Tensor([j \in 1..HiddenUnits |->
               IF h2[r][j] > 0 THEN Mul(dp[r], P.W3[j][1]) ELSE 0])])
      dz1 == Tensor([r \in 1..n |-> Tensor([i \in 1..HiddenUnits |->
               IF h1[r][i] > 0
               THEN SumFn([j \in 1..HiddenUnits |-> Mul(dz2[r][j], P.W2[i][j])],
                          HiddenUnits)
               ELSE 0])])
  IN  [W1 |-> [f \in 1..NumFeatures |-> [i \in 1..HiddenUnits |->
                 SumFn([r \in 1..n |-> Mul(x[r][f], dz1[r][i])], n)]],
       b1 |-> [i \in 1..HiddenUnits |-> SumFn([r \in 1..n |-> dz1[r][i]], n)],
       W2 |-> [i \in 1..HiddenUnits |-> [j \in 1..HiddenUnits |->
                 SumFn([r \in 1..n |-> Mul(h1[r][i], dz2[r][j])], n)]],
       b2 |-> [j \in 1..HiddenUnits |-> SumFn([r \in 1..n |-> dz2[r][j]], n)],
       W3 |-> [j \in 1..HiddenUnits |-> [o \in 1..OutputUnits |->
                 SumFn([r \in 1..n |-> Mul(h2[r][j], dp[r])], n)]],
       b3 |-> [o \in 1..OutputUnits |-> SumFn([r \in 1..n |-> dp[r]], n)]]

\* the update applied with the sign of the gradient: ascent
ApplyGradientAscent(P, g) ==
  [W1 |-> [f \in 1..NumFeatures |-> [i \in 1..HiddenUnits |->
             P.W1[f][i] + Round(g.W1[f][i], LEARNING_RATE_DEN)]],
   b1 |-> [i \in 1..HiddenUnits |-> P.b1[i] + Round(g.b1[i], LEARNING_RATE_DEN)],
   W2 |-> [i \in 1..HiddenUnits |-> [j \in 1..HiddenUnits |->
             P.W2[i][j] + Round(g.W2[i][j], LEARNING_RATE_DEN)]],
   b2 |-> [j \in 1..HiddenUnits |-> P.b2[j] + Round(g.b2[j], LEARNING_RATE_DEN)],
   W3 |-> [j \in 1..HiddenUnits |-> [o \in 1..OutputUnits |->
             P.W3[j][o] + Round(g.W3[j][o], LEARNING_RATE_DEN)]],
   b3 |-> [o \in 1..OutputUnits |-> P.b3[o] + Round(g.b3[o], LEARNING_RATE_DEN)]]

\* optimizer="SGD": theta - learning_rate * gradient, for every kernel and bias
ApplyGradientDescent(P, g) ==
  [W1 |-> [f \in 1..NumFeatures |-> [i \in 1..HiddenUnits |->
             P.W1[f][i] - Round(g.W1[f][i], LEARNING_RATE_DEN)]],
   b1 |-> [i \in 1..HiddenUnits |-> P.b1[i] - Round(g.b1[i], LEARNING_RATE_DEN)],
   W2 |-> [i \in 1..HiddenUnits |-> [j \in 1..HiddenUnits |->
             P.W2[i][j] - Round(g.W2[i][j], LEARNING_RATE_DEN)]],
   b2 |-> [j \in 1..HiddenUnits |-> P.b2[j] - Round(g.b2[j], LEARNING_RATE_DEN)],
   W3 |-> [j \in 1..HiddenUnits |-> [o \in 1..OutputUnits |->
             P.W3[j][o] - Round(g.W3[j][o], LEARNING_RATE_DEN)]],
   b3 |-> [o \in 1..OutputUnits |-> P.b3[o] - Round(g.b3[o], LEARNING_RATE_DEN)]]

\* optimize_loss called with global_step=None: the step is never advanced
StepIncrement_none == 1 - 1

\* what one run of the op adds to the global step passed as global_step=
StepIncrement == 1

\* tf.contrib.layers.optimize_loss(loss, global_step, learning_rate, "SGD"):
\* the training op; running it applies one SGD update and advances global_step
optimize_loss == [optimizer |-> "SGD", increment |-> StepIncrement]

----------------------------------------------------------------------------
(* model_fn *)

\* an absent (None) field of an EstimatorSpec is the empty set, a present
\* one the singleton of its value
Absent == {}

SpecFields == {"predictions", "loss", "train_op", "eval_metric_ops", "export_outputs"}

\* the spec built without eval_metric_ops=
EstimatorSpec_noMetrics(mode, predictions, loss, train_op, eval_metric_ops, export_outputs) ==
  [mode |-> mode, predictions |-> predictions, loss |-> loss, train_op |-> train_op,
   eval_metric_ops |-> Absent, export_outputs |-> export_outputs]

\* tf.estimator.EstimatorSpec(mode=..., predictions=..., loss=..., ...)
EstimatorSpec(mode, predictions, loss, train_op, eval_metric_ops, export_outputs) ==
  [mode |-> mode, predictions |-> predictions, loss |-> loss, train_op |-> train_op,
   eval_metric_ops |-> eval_metric_ops, export_outputs |-> export_outputs]

NoSpec == EstimatorSpec("", Absent, Absent, Absent, Absent, Absent)

\* the fields of an EstimatorSpec that are not None
Present(spec) == {f \in SpecFields : spec[f] # Absent}

\* the branch tested against the string "predict", which is no ModeKeys value
PredictBranch_wrongKey(mode) == mode = "predict"

\* if mode == tf.estimator.ModeKeys.PREDICT:
PredictBranch(mode) == mode = PREDICT

\* model_fn(features, labels, mode, params) on the parameter state P: whether it
\* raised, the EstimatorSpec it returned, and the tensors and ops it built.
\* static: the batch sizes of the tensors are known when the graph is built
model_fn(P, features, labels, mode, static) ==
  LET h1     == first_hidden_layer(P, features)
      h2     == second_hidden_layer(P, h1)
      out    == output_layer(P, h2)
      predictions == reshape(out)
      net    == {"first_hidden_layer", "second_hidden_layer", "output_layer",
                 "predictions"}
      loss   == mean_squared_error(labels, predictions, static)
  IN  IF PredictBranch(mode)
      THEN [raised |-> FALSE,
            spec   |-> EstimatorSpec(mode, {[ages |-> predictions]}, Absent, Absent,
                                     Absent, {SIGNATURE_NAME}),
            graph  |-> [ops |-> net, output_layer |-> out,
                        predictions |-> predictions]]
      ELSE IF loss.raised
      THEN [raised |-> TRUE, spec |-> NoSpec,
            graph  |-> [ops |-> net, output_layer |-> out,
                        predictions |-> predictions]]
      ELSE [raised |-> FALSE,
            spec   |-> EstimatorSpec(mode, Absent, {loss.value}, {optimize_loss},
                         {[rmse |-> root_mean_squared_error(labels, predictions)]},
                         Absent),
            graph  |-> [ops |-> net \cup {"loss", "train_op", "eval_metric_ops"},
                        output_layer |-> out, predictions |-> predictions]]

----------------------------------------------------------------------------
(* The parameter state and the calls *)

\* Dense kernels start at a draw of glorot_uniform, biases at zero
KernelDraws == {"zero", "mixed"}

\* entry (i, j) of the initial kernel of layer 1, 2 or 3 in a draw
InitialKernel(draw, layer, i, j) ==
  IF draw = "zero" THEN 0
  ELSE IF layer = 1 THEN (IF (i + j) % 3 = 0 THEN -300 ELSE 200)
  ELSE IF layer = 2 THEN (IF (i + j) % 2 = 0 THEN 150 ELSE -100)
  ELSE (IF i % 2 = 0 THEN 400 ELSE -250)

Kernels(draw) ==
  [W1 |-> [f \in 1..NumFeatures |-> [i \in 1..HiddenUnits |->
             InitialKernel(draw, 1, f, i)]],
   b1 |-> [i \in 1..HiddenUnits |-> 0],
   W2 |-> [i \in 1..HiddenUnits |-> [j \in 1..HiddenUnits |->
             InitialKernel(draw, 2, i, j)]],
   b2 |-> [j \in 1..HiddenUnits |-> 0],
   W3 |-> [j \in 1..HiddenUnits |-> [o \in 1..OutputUnits |->
             InitialKernel(draw, 3, j, o)]],
   b3 |-> [o \in 1..OutputUnits |-> 0]]

InitialParams == {Kernels(draw) : draw \in KernelDraws}

NoCall == [mode |-> "", features |-> << >>, labels |-> None]
NoResult == [status |-> "none", spec |-> NoSpec]
NoGraph == [ops |-> {}, output_layer |-> << >>, predictions |-> << >>]
NoGradients == << >>

\* no evaluate() run yet: the accumulators of the streaming metrics are empty
NoEvaluation ==
  [state |-> "none", total |-> 0, count |-> 0, loss_sum |-> 0, batches |-> 0,
   metrics |-> Absent]

\* no answer of the endpoint yet
NoResponse == [request |-> << >>, declared |-> FALSE, status |-> "none", outputs |-> Absent]

\* no cell of the notebook run yet: nothing uploaded, no training job, no endpoint
NotRun ==
  [cell |-> 1, calls |-> << >>, uploaded |-> FALSE, job |-> "none",
   endpoint |-> "none", prediction |-> NoResponse, response |-> NoResponse]

Init ==
  /\ params \in InitialParams
  /\ global_step = 0
  /\ pc = [w \in Workers |-> "idle"]
  /\ pending = [w \in Workers |-> NoGradients]
  /\ call = [w \in Workers |-> NoCall]
  /\ result = [w \in Workers |-> NoResult]
  /\ graph = [w \in Workers |-> NoGraph]
  /\ applied = 0
  /\ evaluation = NoEvaluation
  /\ notebook = NotRun

\* a caller that runs the training op in predict() too
RunsTrainOp_inPredict(mode) == mode \in {TRAIN, PREDICT}

\* a caller that runs every op the spec carries, so the training op in evaluate() too
RunsTrainOp_inEval(mode) == mode \in {TRAIN, EVAL}

\* the Estimator runs the spec's train_op in a train() call only
RunsTrainOp(mode) == mode = TRAIN

\* one invocation of model_fn by worker w and what the caller runs of its spec
Call(w, mode, x, labels, static) ==
  LET features == [inputs |-> x]
      r == model_fn(params, features, labels, mode, static)
      training == ~r.raised /\ RunsTrainOp(mode) /\ labels # None
  IN  /\ pc[w] = "idle"
      /\ call' = [call EXCEPT ![w] = [mode |-> mode, features |-> x, labels |-> labels]]
      /\ graph' = [graph EXCEPT ![w] = r.graph]
      /\ IF training
         THEN /\ applied < MaxSteps
              /\ pc' = [pc EXCEPT ![w] = "applying"]
              /\ pending' = [pending EXCEPT ![w] = Gradients(params, features, labels)]
              /\ result' = [result EXCEPT ![w] = [status |-> "running", spec |-> r.spec]]
         ELSE /\ result' = [result EXCEPT ![w] =
                             [status |-> IF r.raised THEN "error" ELSE "ok",
                              spec |-> r.spec]]
              /\ UNCHANGED <<pc, pending>>
      /\ UNCHANGED <<params, global_step, applied>>

\* Estimator.train(): one step on a batch of the training input
Train(w, x, labels, static) ==
  Call(w, TRAIN, x, labels, static) /\ UNCHANGED <<evaluation, notebook>>

\* the run of train_op started by Train: the SGD update and the step increment
ApplyTrainOp(w) ==
  /\ pc[w] = "applying"
  /\ params' = ApplyGradientDescent(params, pending[w])
  /\ global_step' = global_step + optimize_loss.increment
  /\ applied' = applied + 1
  /\ pc' = [pc EXCEPT ![w] = "idle"]
  /\ pending' = [pending EXCEPT ![w] = NoGradients]
  /\ result' = [result EXCEPT ![w].status = "ok"]
  /\ UNCHANGED <<call, graph, evaluation, notebook>>

\* Estimator.evaluate(): loss and metrics on a batch of the evaluation input
Evaluate(w, x, labels, static) ==
  Call(w, EVAL, x, labels, static) /\ UNCHANGED <<evaluation, notebook>>

\* Estimator.predict() / the endpoint: predictions for a batch
Predict(w, x, labels, static) ==
  Call(w, PREDICT, x, labels, static) /\ UNCHANGED <<evaluation, notebook>>

\* model_fn called with a mode that is no ModeKeys value
CallBadMode(w, mode, x, labels, static) ==
  /\ mode \in BadModes
  /\ Call(w, mode, x, labels, static)
  /\ UNCHANGED <<evaluation, notebook>>

Next ==
  \E w \in Workers :
    \/ \E x \in FeatureBatches, labels \in LabelBatches, static \in BOOLEAN :
          Train(w, x, labels, static)
    \/ ApplyTrainOp(w)
    \/ \E x \in FeatureBatches, labels \in LabelBatches, static \in BOOLEAN :
          Evaluate(w, x, labels, static)
    \/ \E x \in FeatureBatches, labels \in LabelBatches, static \in BOOLEAN :
          Predict(w, x, labels, static)
    \/ \E mode \in BadModes, x \in FeatureBatches, labels \in LabelBatches,
          static \in BOOLEAN :
          CallBadMode(w, mode, x, labels, static)

Spec == Init /\ [][Next]_vars

----------------------------------------------------------------------------
(* Training steps from a restored parameter state *)

\* output biases of a checkpoint: untrained, and trained to a constant
\* prediction of 11.0 or of 15.0 rings
CheckpointBiases == {0, 11 * Unit, 15 * Unit}

\* the parameter state of a checkpoint: the kernels of a draw and an output bias
Restored(draw, bias) ==
  [Kernels(draw) EXCEPT !.b3 = [o \in 1..OutputUnits |-> bias]]

\* the parameter states train() may start from: the Estimator restores the
\* latest checkpoint of its model directory, or initialises afresh
RestoredParams ==
  {Restored(draw, bias) : draw \in KernelDraws, bias \in CheckpointBiases}

InitRestored ==
  /\ params \in RestoredParams
  /\ global_step = 0
  /\ pc = [w \in Workers |-> "idle"]
  /\ pending = [w \in Workers |-> NoGradients]
  /\ call = [w \in Workers |-> NoCall]
  /\ result = [w \in Workers |-> NoResult]
  /\ graph = [w \in Workers |-> NoGraph]
  /\ applied = 0
  /\ evaluation = NoEvaluation
  /\ notebook = NotRun

\* Estimator.train() alone: calls in TRAIN mode and the runs of their training op
NextTrain ==
  \E w \in Workers :
    \/ \E x \in FeatureBatches, labels \in LabelBatches, static \in BOOLEAN :
          Train(w, x, labels, static)
    \/ ApplyTrainOp(w)

SpecTrain == InitRestored /\ [][NextTrain]_vars

----------------------------------------------------------------------------
(* Estimator.evaluate(): the metrics streamed over the batches of one run *)

\* evaluate() starts: the local variables of the metrics are initialised
EvaluateBegin ==
  /\ evaluation.state # "running"
  /\ \A w \in Workers : pc[w] = "idle"
  /\ evaluation' = [NoEvaluation EXCEPT !.state = "running"]
  /\ UNCHANGED <<params, global_step, pc, pending, call, result, graph, applied,
                 notebook>>

\* one evaluation step: model_fn in EVAL mode on the next batch of the input
\* queue, whose batch size is known only when the op runs. The update op of
\* the rmse metric adds the squared errors to total and their number to
\* count; the mean metric the Estimator adds for the loss adds the batch loss
\* to its total and 1 to its count. A raising model_fn ends the run.
EvaluateBatch(w, x, labels) ==
  LET r == model_fn(params, [inputs |-> x], labels, EVAL, FALSE)
      p == r.graph.predictions
  IN  /\ evaluation.state = "running"
      /\ evaluation.batches < MaxEvalBatches
      /\ Call(w, EVAL, x, labels, FALSE)
      /\ evaluation' =
           IF r.raised THEN [evaluation EXCEPT !.state = "failed"]
           ELSE [evaluation EXCEPT
                   !.total = @ + SquaredErrorSum(labels, p),
                   !.count = @ + Len(Errors(labels, p)),
                   !.loss_sum = @ + (CHOOSE l \in r.spec.loss : TRUE),
                   !.batches = @ + 1]
      /\ UNCHANGED notebook

\* evaluate() returns after its last step: the value of every metric, the
\* loss as the mean of the batch losses, and the global step
EvaluateEnd ==
  /\ evaluation.state = "running"
  /\ evaluation.batches >= 1
  /\ evaluation' =
       [evaluation EXCEPT
          !.state = "done",
          !.metrics = {[loss |-> Round(evaluation.loss_sum, evaluation.batches),
                        rmse |-> sqrt(Round(evaluation.total, evaluation.count)),
                        global_step |-> global_step]}]
  /\ UNCHANGED <<params, global_step, pc, pending, call, result, graph, applied,
                 notebook>>

NextEvaluate ==
  \/ EvaluateBegin
  \/ \E w \in Workers, x \in FeatureBatches, labels \in LabelBatches :
        EvaluateBatch(w, x, labels)
  \/ EvaluateEnd

SpecEvaluate == Init /\ [][NextEvaluate]_vars

----------------------------------------------------------------------------
(* The notebook: its cells that call SageMaker, and the hosted endpoint *)

\* the deploy cell placed before the fit cell
Cells_deployBeforeFit == <<"upload_data", "deploy", "fit", "predict", "delete_endpoint">>

\* the code cells that call a service, in the order the notebook lists them
Cells == <<"upload_data", "fit", "deploy", "predict", "delete_endpoint">>

\* the notebook is run top to bottom: the next cell to run is the one named
AtCell(name) == notebook.cell <= Len(Cells) /\ Cells[notebook.cell] = name

\* the cell has run: the next one is up, and the call is in the history
Ran(name) == [notebook EXCEPT !.cell = @ + 1, !.calls = Append(@, name)]

\* the rows of the training and test files and their ring counts
DataSet == [x |-> <<Row1, Row2>>, y |-> <<15, 7>>]

\* numpy_input_fn(..., num_epochs=None, shuffle=True): the queue never runs
\* dry, and a batch holds the rows in either order
InputBatches ==
  {DataSet, [x |-> <<DataSet.x[2], DataSet.x[1]>>, y |-> <<DataSet.y[2], DataSet.y[1]>>]}

\* data = prediction_set.data[0]
PredictionRow == Row1

\* requests a client may send to the endpoint
Requests == {<<PredictionRow>>, <<ZeroRow>>, <<Row1, Row2>>}

\* serving_input_fn: the placeholder the serving signature declares
serving_input_fn == [inputs |-> <<1, NumFeatures>>]

\* shape=[1, len(data)]: the shape of a request of rows
ShapeOf(request) == <<Len(request), NumFeatures>>

\* a signature declared with shape [None, 7]: any number of rows
Conforms_anyBatch(shape) == shape[2] = serving_input_fn[INPUT_TENSOR_NAME][2]

\* the request has the shape the serving signature declares
Conforms(shape) == shape = serving_input_fn[INPUT_TENSOR_NAME]

\* the answer of the endpoint to a request: model_fn in PREDICT mode without
\* labels on the trained parameters. A request outside the declared shape is
\* refused where the runtime checks the shape it is fed, and run where it
\* does not: rejects says which.
Endpoint(request, rejects) ==
  LET declared == Conforms(ShapeOf(request))
      r == model_fn(params, [inputs |-> request], None, PREDICT, TRUE)
  IN  IF notebook.endpoint # "InService" \/ r.raised \/ (~declared /\ rejects)
      THEN [request |-> request, declared |-> declared, status |-> "error",
            outputs |-> Absent]
      ELSE [request |-> request, declared |-> declared, status |-> "ok",
            outputs |-> r.spec.predictions]

\* sagemaker_session.upload_data(path='data', key_prefix='data/DEMO-abalone')
UploadData ==
  /\ AtCell("upload_data")
  /\ notebook' = [Ran("upload_data") EXCEPT !.uploaded = TRUE]
  /\ UNCHANGED <<params, global_step, pc, pending, call, result, graph, applied,
                 evaluation>>

\* abalone_estimator = TensorFlow(...); abalone_estimator.fit(inputs): the
\* training job starts
FitStart ==
  /\ AtCell("fit")
  /\ notebook.job = "none"
  /\ notebook' = [notebook EXCEPT !.job = "InProgress",
                                  !.calls = Append(@, "fit")]
  /\ UNCHANGED <<params, global_step, pc, pending, call, result, graph, applied,
                 evaluation>>

\* one training step of the job: model_fn in TRAIN mode on the next batch of
\* the training input and the run of its training op
FitStep(w, batch) ==
  LET features == [inputs |-> batch.x]
      r == model_fn(params, features, batch.y, TRAIN, FALSE)
  IN  /\ AtCell("fit")
      /\ notebook.job = "InProgress"
      /\ global_step < training_steps
      /\ pc[w] = "idle"
      /\ ~r.raised
      /\ call' = [call EXCEPT ![w] = [mode |-> TRAIN, features |-> batch.x,
                                      labels |-> batch.y]]
      /\ graph' = [graph EXCEPT ![w] = r.graph]
      /\ result' = [result EXCEPT ![w] = [status |-> "ok", spec |-> r.spec]]
      /\ params' = ApplyGradientDescent(params, Gradients(params, features, batch.y))
      /\ global_step' = global_step + optimize_loss.increment
      /\ applied' = applied + 1
      /\ UNCHANGED <<pc, pending, evaluation, notebook>>

\* the job stops at training_steps, evaluates evaluation_steps batches of the
\* test input, saves the model, and fit returns
FitEnd ==
  LET x == DataSet.x
      p == model_fn(params, [inputs |-> x], DataSet.y, EVAL, FALSE).graph.predictions
      total == evaluation_steps * SquaredErrorSum(DataSet.y, p)
      count == evaluation_steps * Len(x)
      loss_sum == evaluation_steps * mean_squared_error(DataSet.y, p, FALSE).value
  IN  /\ AtCell("fit")
      /\ notebook.job = "InProgress"
      /\ global_step >= training_steps
      /\ evaluation' =
           [state |-> "done", total |-> total, count |-> count,
            loss_sum |-> loss_sum, batches |-> evaluation_steps,
            metrics |-> {[loss |-> Round(loss_sum, evaluation_steps),
                          rmse |-> sqrt(Round(total, count)),
                          global_step |-> global_step]}]
      /\ notebook' = [notebook EXCEPT !.job = "Completed", !.cell = @ + 1]
      /\ UNCHANGED <<params, global_step, pc, pending, call, result, graph, applied>>

\* abalone_predictor = abalone_estimator.deploy(initial_instance_count=1, ...)
Deploy ==
  /\ AtCell("deploy")
  /\ notebook' = [Ran("deploy") EXCEPT !.endpoint = "InService"]
  /\ UNCHANGED <<params, global_step, pc, pending, call, result, graph, applied,
                 evaluation>>

\* abalone_predictor.predict(tensor_proto) with the one-row tensor of data
PredictCell ==
  /\ AtCell("predict")
  /\ notebook' = [Ran("predict") EXCEPT
                    !.prediction = Endpoint(<<PredictionRow>>, TRUE),
                    !.response = Endpoint(<<PredictionRow>>, TRUE)]
  /\ UNCHANGED <<params, global_step, pc, pending, call, result, graph, applied,
                 evaluation>>

\* a request of any client of the hosted endpoint
ClientRequest(request, rejects) ==
  /\ notebook.endpoint = "InService"
  /\ notebook' = [notebook EXCEPT !.response = Endpoint(request, rejects)]
  /\ UNCHANGED <<params, global_step, pc, pending, call, result, graph, applied,
                 evaluation>>

\* sagemaker.Session().delete_endpoint(abalone_predictor.endpoint)
DeleteEndpoint ==
  /\ AtCell("delete_endpoint")
  /\ notebook' = [Ran("delete_endpoint") EXCEPT !.endpoint = "deleted"]
  /\ UNCHANGED <<params, global_step, pc, pending, call, result, graph, applied,
                 evaluation>>

NextNotebook ==
  \/ UploadData
  \/ FitStart
  \/ \E w \in Workers, batch \in InputBatches : FitStep(w, batch)
  \/ FitEnd
  \/ Deploy
  \/ PredictCell
  \/ \E request \in Requests, rejects \in BOOLEAN : ClientRequest(request, rejects)
  \/ DeleteEndpoint

SpecNotebook == Init /\ [][NextNotebook]_vars

----------------------------------------------------------------------------
(* Properties *)

\* the step is one of worker w: a call of w, or the run of its training op
StepBy(w) ==
  \/ pc'[w] # pc[w]
  \/ call'[w] # call[w]
  \/ result'[w] # result[w]
  \/ graph'[w] # graph[w]

BuiltAfterPredict == {"loss", "train_op", "eval_metric_ops"}

\* C1: after a call in PREDICT mode the result is a spec tagged PREDICT whose
\* predictions map the single key "ages" to the prediction vector; it carries
\* no loss, no training op and no metrics, and none of them was built.
C1_PredictResult ==
  \A w \in Workers :
    call[w].mode = PREDICT =>
      /\ result[w].status = "ok"
      /\ result[w].spec.mode = PREDICT
      /\ result[w].spec.predictions = {[ages |-> graph[w].predictions]}
      /\ \A p \in result[w].spec.predictions : DOMAIN p = {"ages"}
      /\ result[w].spec.loss = Absent
      /\ result[w].spec.train_op = Absent
      /\ result[w].spec.eval_metric_ops = Absent
      /\ graph[w].ops \cap BuiltAfterPredict = {}

\* a PREDICT call on two rows that was given labels and still computed no loss
C1_Witness ==
  \E w \in Workers :
    /\ call[w].mode = PREDICT
    /\ call[w].labels # None
    /\ Len(call[w].features) = 2
    /\ result[w].status = "ok"
    /\ result[w].spec.loss = Absent

\* C2 as stated: a TRAIN result consists of loss and training op only, an EVAL
\* result of loss and a metrics mapping with the single key "rmse" only.
C2_ShapedByMode ==
  \A w \in Workers :
    result[w].status \in {"ok", "running"} =>
      /\ call[w].mode = TRAIN => Present(result[w].spec) = {"loss", "train_op"}
      /\ call[w].mode = EVAL =>
           /\ Present(result[w].spec) = {"loss", "eval_metric_ops"}
           /\ \A m \in result[w].spec.eval_metric_ops : DOMAIN m = {"rmse"}

\* C2 amended: a TRAIN result and an EVAL result have the same shape: each is
\* tagged with its mode and carries one scalar loss, the training op and a
\* metrics mapping whose only key is "rmse", and no predictions.
C2_SameShapeTrainEval ==
  \A w \in Workers :
    (result[w].status \in {"ok", "running"} /\ call[w].mode \in {TRAIN, EVAL}) =>
      /\ result[w].spec.mode = call[w].mode
      /\ Present(result[w].spec) = {"loss", "train_op", "eval_metric_ops"}
      /\ Cardinality(result[w].spec.loss) = 1
      /\ result[w].spec.loss \subseteq Int
      /\ Cardinality(result[w].spec.eval_metric_ops) = 1
      /\ \A m \in result[w].spec.eval_metric_ops : DOMAIN m = {"rmse"}

\* an EVAL result that carries the training op next to loss and metrics
C2_Witness ==
  \E w \in Workers :
    /\ call[w].mode = EVAL
    /\ result[w].status = "ok"
    /\ result[w].spec.train_op # Absent
    /\ result[w].spec.eval_metric_ops # Absent

\* C3: a step of a call in PREDICT mode leaves the kernels, the biases and the
\* global step as they were, and a PREDICT call that directly follows a
\* PREDICT call on the same feature batch returns the same predictions.
C3_PredictFrame ==
  [][\A w \in Workers :
       (StepBy(w) /\ call'[w].mode = PREDICT) =>
         /\ params' = params
         /\ global_step' = global_step
         /\ (call[w].mode = PREDICT /\ call[w].features = call'[w].features) =>
              result'[w].spec.predictions = result[w].spec.predictions]_vars

\* a PREDICT call made after training steps were applied
C3_Witness ==
  \E w \in Workers :
    /\ call[w].mode = PREDICT
    /\ result[w].status = "ok"
    /\ global_step = MaxSteps
    /\ params \notin InitialParams

\* C4: a step of a call in EVAL mode leaves the kernels, the biases and the
\* global step as they were, though its spec carries the training op.
C4_EvalFrame ==
  [][\A w \in Workers :
       (StepBy(w) /\ call'[w].mode = EVAL) =>
         /\ params' = params
         /\ global_step' = global_step
         /\ pc'[w] = "idle"]_vars

\* an EVAL call that returned a spec with the training op built
C4_Witness ==
  \E w \in Workers :
    /\ call[w].mode = EVAL
    /\ result[w].status = "ok"
    /\ result[w].spec.train_op # Absent
    /\ "train_op" \in graph[w].ops
    /\ global_step > 0

\* C5: the global step equals the number of training steps applied so far, no
\* step decreases it, and applying a training step adds exactly one to it.
C5_GlobalStep ==
  /\ [](global_step = applied)
  /\ [][/\ global_step' >= global_step
        /\ applied' # applied =>
             (applied' = applied + 1 /\ global_step' = global_step + 1)]_vars

\* two training steps applied, then a call in another mode
C5_Witness ==
  \E w \in Workers :
    /\ applied = 2
    /\ global_step = 2
    /\ call[w].mode \in {EVAL, PREDICT}

C7_BadModeFails ==
  \A w \in Workers :
    call[w].mode \in BadModes =>
      /\ result[w].status = "error"
      /\ Present(result[w].spec) = {}

\* C8 as stated: a TRAIN or EVAL call without labels, or with a label count
\* other than the number of feature rows, fails with an error.
C8_LabelMismatchFails ==
  \A w \in Workers :
    (/\ call[w].mode \in {TRAIN, EVAL}
     /\ \/ call[w].labels = None
        \/ Len(call[w].labels) # Len(call[w].features)) =>
      result[w].status = "error"

\* the network output for the single row x under the current parameters
RowOutput(x) ==
  output_layer(params,
    second_hidden_layer(params, first_hidden_layer(params, [inputs |-> <<x>>])))[1][1]

\* C9: in every mode the prediction vector has one entry per feature row, and
\* entry i is the output of the network for row i.
C9_OnePredictionPerRow ==
  \A w \in Workers :
    call[w].mode # NoCall.mode =>
      /\ Len(graph[w].predictions) = Len(call[w].features)
      /\ \A i \in 1..Len(graph[w].predictions) :
           /\ graph[w].predictions[i] = graph[w].output_layer[i][1]
           /\ (call[w].mode = TRAIN /\ result[w].status = "ok")
              \/ graph[w].predictions[i] = RowOutput(call[w].features[i])

\* a two-row batch whose two predictions differ
C9_Witness ==
  \E w \in Workers :
    /\ call[w].mode \in ModeKeys
    /\ Len(call[w].features) = 2
    /\ Len(graph[w].predictions) = 2
    /\ graph[w].predictions[1] # graph[w].predictions[2]

\* C11: in PREDICT mode the labels are ignored: the call raises no error, and
\* its result is the one model_fn gives for the same parameters and feature
\* batch with any other labels argument: none, one label per row, or a label
\* count other than the row count, with batch sizes known or not.
C11_PredictIgnoresLabels ==
  \A w \in Workers :
    call[w].mode = PREDICT =>
      /\ result[w].status = "ok"
      /\ \A labels \in LabelBatches, static \in BOOLEAN :
           LET r == model_fn(params, [inputs |-> call[w].features], labels,
                             PREDICT, static)
           IN  ~r.raised /\ r.spec = result[w].spec

\* a PREDICT call that was given a label count other than its row count
C11_Witness ==
  \E w \in Workers :
    /\ call[w].mode = PREDICT
    /\ call[w].labels # None
    /\ Len(call[w].labels) # Len(call[w].features)
    /\ result[w].status = "ok"
    /\ result[w].spec.predictions # Absent

\* C14: with every kernel and every bias zero, the prediction for the
\* all-zero feature row is exactly 0, in every mode.
C14_ZeroInZeroOut ==
  \A w \in Workers :
    (/\ call[w].mode \in ModeKeys
     /\ params = Kernels("zero")
     /\ call[w].features = <<ZeroRow>>) =>
      /\ graph[w].predictions = <<0>>
      /\ call[w].mode = PREDICT => result[w].spec.predictions = {[ages |-> <<0>>]}

\* a PREDICT call on the all-zero row under all-zero kernels and biases
C14_Witness ==
  \E w \in Workers :
    /\ call[w].mode = PREDICT
    /\ params = Kernels("zero")
    /\ call[w].features = <<ZeroRow>>
    /\ result[w].status = "ok"
    /\ \A p \in result[w].spec.predictions : p.ages = <<0>>

\* C13: in TRAIN mode, when every label equals the prediction for its row,
\* the loss is exactly 0.
C13_ZeroLossAtLabels ==
  \A w \in Workers :
    (/\ call[w].mode = TRAIN
     /\ call[w].labels # None
     /\ Len(call[w].labels) = Len(graph[w].predictions)
     /\ \A i \in 1..Len(call[w].labels) :
          graph[w].predictions[i] = call[w].labels[i] * Unit) =>
      /\ result[w].status \in {"running", "ok"}
      /\ result[w].spec.loss = {0}

\* a TRAIN call on a row predicted at 15.0 rings with the label 15
C13_Witness ==
  \E w \in Workers :
    /\ call[w].mode = TRAIN
    /\ call[w].labels = <<15>>
    /\ graph[w].predictions = <<15 * Unit>>
    /\ result[w].status = "ok"
    /\ 0 \in result[w].spec.loss

\* the loss of the batch (x, labels) under the parameter state P
LossOf(P, x, labels) ==
  LET features == [inputs |-> x]
  IN  mean_squared_error(labels,
        reshape(output_layer(P,
          second_hidden_layer(P, first_hidden_layer(P, features)))), FALSE).value

C17_FixedOrder ==
  /\ [](/\ \E n \in 0..5 :
             notebook.calls =
               SubSeq(<<"upload_data", "fit", "deploy", "predict", "delete_endpoint">>, 1, n)
        /\ notebook.job # "none" => notebook.uploaded
        /\ notebook.job = "InProgress" => notebook.endpoint = "none"
        /\ notebook.endpoint # "none" => notebook.job = "Completed"
        /\ notebook.prediction.status # "none" =>
             /\ notebook.prediction.status = "ok"
             /\ notebook.endpoint # "none"
        /\ notebook.cell > Len(Cells) =>
             /\ notebook.endpoint = "deleted"
             /\ Len(notebook.calls) = 5)
  /\ [][notebook.endpoint = "deleted" =>
          /\ notebook'.endpoint = "deleted"
          /\ notebook'.response = notebook.response
          /\ notebook'.prediction = notebook.prediction]_vars

\* the notebook run to its end: trained, deployed, predicted, endpoint deleted
C17_Witness ==
  /\ notebook.cell > Len(Cells)
  /\ notebook.uploaded
  /\ notebook.job = "Completed"
  /\ notebook.prediction.status = "ok"
  /\ notebook.endpoint = "deleted"

\* C18 as stated: the fit cell trains with 10 training steps: while the job
\* runs at most 10 training steps have been applied, and when it has ended
\* exactly 10.
C18_TenTrainingSteps ==
  /\ notebook.job = "InProgress" => applied <= 10
  /\ notebook.job = "Completed" => (applied = 10 /\ global_step = 10)

====
